---- MODULE Spec2Model ----
(***************************************************************************)
(* State-machine model of QtEditorialTimelineWidget.py: the TimelineView   *)
(* (tracks, playhead_frame, end_frame, h_zoom, playback timer) and the     *)
(* graphics items whose mouse handlers change it (ClipItem, EndLineItem,   *)
(* PlayheadTriangleItem, PlayheadLineItem).                                *)
(*                                                                         *)
(* Python floats are modelled as exact rationals <<n, d>> with d > 0 in    *)
(* lowest terms; every pointer position and zoom value drawn below gives   *)
(* a quotient whose rounding is the same in IEEE doubles as in exact       *)
(* arithmetic.  Python ints are embedded as <<k, 1>> where a variable can  *)
(* hold either (playhead_frame), and are plain integers where the code     *)
(* only ever stores an int (start_frame, end_frame after updateLayout).    *)
(***************************************************************************)
EXTENDS Integers, Sequences, FiniteSets, TLC

----------------------------------------------------------------------------
(* Rational arithmetic standing for Python float arithmetic.               *)

Abs(i) == IF i < 0 THEN -i ELSE i

Max(a, b) == IF a >= b THEN a ELSE b

RECURSIVE Gcd(_, _)
Gcd(a, b) == IF b = 0 THEN a ELSE Gcd(b, a % b)

Rat(n, d) ==
    IF d = 1 THEN << n, 1 >>
    ELSE LET s == IF d < 0 THEN -1 ELSE 1
             g == Gcd(Abs(n), Abs(d))
         IN  << (s * n) \div g, (s * d) \div g >>

Int2Rat(k) == << k, 1 >>

RAdd(p, q) == Rat(p[1] * q[2] + q[1] * p[2], p[2] * q[2])

RSub(p, q) == Rat(p[1] * q[2] - q[1] * p[2], p[2] * q[2])

RMul(p, q) == Rat(p[1] * q[1], p[2] * q[2])

RDiv(p, q) == Rat(p[1] * q[2], p[2] * q[1])

RLess(p, q) == p[1] * q[2] < q[1] * p[2]

RGeq(p, q) == p[1] * q[2] >= q[1] * p[2]

IsInt(p) == p[2] = 1

(* Python 3 round(x) with one argument: nearest integer, ties to even.     *)
PyRound(p) ==
    LET f == p[1] \div p[2]
        r == p[1] - f * p[2]
    IN  IF 2 * r < p[2] THEN f
        ELSE IF 2 * r > p[2] THEN f + 1
        ELSE IF f % 2 = 0 THEN f ELSE f + 1

----------------------------------------------------------------------------
(* Program constants.                                                      *)

LEFT_MARGIN == 150

BASE_PIXELS_PER_FRAME == 10

DEFAULT_TRACK_HEIGHT == 60

SNAP_TOLERANCE == 1

EndFramePadding == 24

EndFrameFloor == 100

TOP_MARGIN == 30

BOTTOM_MARGIN == 20

TRACK_SPACING == 2

SceneWidth == 2000

----------------------------------------------------------------------------
(* Inputs: the tracks the application builds, the pointer positions (scene *)
(* x, in pixels) of the mouse events, the slider values and the frames     *)
(* passed to setEndFrame.                                                  *)

ClipData(start_frame, duration_frames) ==
    [start_frame |-> start_frame, duration_frames |-> duration_frames]

TrackData(name, clips) ==
    [name |-> name, height |-> DEFAULT_TRACK_HEIGHT, clips |-> clips]

TrackV1 == TrackData("V1", << ClipData(0, 50), ClipData(50, 50), ClipData(110, 10) >>)

TrackV2 == TrackData("V2", << ClipData(0, 100), ClipData(120, 10) >>)

TrackA1 == TrackData("A1", << ClipData(0, 30) >>)

TrackA2 == TrackData("A2", << >>)

(* What the application has built and may still hand to addTrack.          *)
TrackPools == { {TrackA1} }

ClipTrackPools == { {TrackV1}, {TrackV2, TrackA1} }

LayoutTrackPools == { {TrackA1, TrackA2} }

ClipXs == {140, 600, 1150, 1160}

PlayheadXs == {140, 155, 1150}

EndXs == {650, 3000}

EndFrameInputs == {150, 300}

HZoomValues == {100}

VZoomValues == {50}

(* The frame-step buttons are pressed while the playhead is at most this   *)
(* many frames away from frame 0.                                          *)
MaxStepFrame == 2

----------------------------------------------------------------------------
VARIABLES
    tracks,          \* TimelineView.tracks: sequence of TrackData
    pool,            \* TrackData objects built and not yet added
    playhead_frame,  \* TimelineView.playhead_frame (rational)
    end_frame,       \* TimelineView.end_frame
    h_zoom,          \* TimelineView.h_zoom (rational)
    v_zoom,          \* TimelineView.v_zoom (rational)
    geometry,        \* scene rect and item positions, as updateLayout and setPos left them
    laid_out,        \* updateLayout ran and no clip was pressed, moved or released since
    timer_active,    \* TimelineView.timer is running
    drag,            \* the ClipItem holding the mouse, and its pos().x()
    last,            \* the clip release just handled (NoRelease after any other event)
    run              \* ticks since the playhead was last at 0 with no other event

vars == << tracks, pool, playhead_frame, end_frame, h_zoom, v_zoom, geometry,
           laid_out, timer_active, drag, last, run >>

NoDrag == [t |-> 0, c |-> 0, x |-> << 0, 1 >>]

NoRun == [E |-> 0, n |-> 0, on |-> FALSE]

NoRelease == [t |-> 0, c |-> 0, x |-> << 0, 1 >>, from |-> 0]

----------------------------------------------------------------------------
(* Coordinate mapping, as written inline in every item.                    *)

Scale(hz) == RMul(Int2Rat(BASE_PIXELS_PER_FRAME), hz)

xToFrame(x, hz) == RDiv(RSub(x, Int2Rat(LEFT_MARGIN)), Scale(hz))

frameToX(frame, hz) == RAdd(Int2Rat(LEFT_MARGIN), RMul(frame, Scale(hz)))

----------------------------------------------------------------------------
(* TimelineView.minimum_end_frame                                          *)

ClipEnd(clip) == clip.start_frame + clip.duration_frames

RECURSIVE MaxClipEnd(_, _)
MaxClipEnd(clips, max_end) ==
    IF clips = << >> THEN max_end
    ELSE MaxClipEnd(Tail(clips),
                    IF ClipEnd(Head(clips)) > max_end
                    THEN ClipEnd(Head(clips)) ELSE max_end)

RECURSIVE MinEndFrom(_, _)
MinEndFrom(trs, max_end) ==
    IF trs = << >> THEN max_end
    ELSE MinEndFrom(Tail(trs), MaxClipEnd(Head(trs).clips, max_end))

minimum_end_frame(trs) == MinEndFrom(trs, 0)

(* TimelineView.updateLayout: the end frame it stores.  The ClipItems are  *)
(* removed from the scene and rebuilt, so an item holding the mouse loses  *)
(* it and its release is never delivered.                                  *)
(* A plausible slip: the 24 frames of padding are left out.                 *)
updateLayout_end_frame_unpadded(trs) == Max(minimum_end_frame(trs), EndFrameFloor)

updateLayout_end_frame(trs) == Max(minimum_end_frame(trs) + EndFramePadding, EndFrameFloor)

(* The geometry of one track's clips: x, y, width and height of each item. *)
clip_geometry(clip, current_y, height, hz, vz) ==
    [x |-> frameToX(Int2Rat(clip.start_frame), hz),
     y |-> current_y,
     width |-> RMul(Int2Rat(clip.duration_frames * BASE_PIXELS_PER_FRAME
                            + BASE_PIXELS_PER_FRAME), hz),
     height |-> RMul(Int2Rat(height), vz)]

(* The second loop of updateLayout: header, lane and clip items of the     *)
(* tracks from index i on, the i-th starting at current_y.                 *)
RECURSIVE track_geometry_from(_, _, _, _, _)
track_geometry_from(i, current_y, trs, hz, vz) ==
    IF i > Len(trs) THEN << >>
    ELSE << [y |-> current_y,
             lane_x |-> Int2Rat(LEFT_MARGIN),
             lane_width |-> Int2Rat(SceneWidth - LEFT_MARGIN),
             height |-> RMul(Int2Rat(trs[i].height), vz),
             clips |-> [c \in DOMAIN trs[i].clips |->
                           clip_geometry(trs[i].clips[c], current_y, trs[i].height, hz, vz)]] >>
         \o track_geometry_from(
                i + 1,
                RAdd(current_y, RAdd(RMul(Int2Rat(trs[i].height), vz), Int2Rat(TRACK_SPACING))),
                trs, hz, vz)

(* The first loop of updateLayout: y below the last track.                 *)
RECURSIVE tracks_bottom_from(_, _, _, _)
tracks_bottom_from(i, y, trs, vz) ==
    IF i > Len(trs) THEN y
    ELSE tracks_bottom_from(
             i + 1,
             RAdd(y, RAdd(RMul(Int2Rat(trs[i].height), vz), Int2Rat(TRACK_SPACING))),
             trs, vz)

(* Everything updateLayout positions, from the model state it reads.       *)
layout_geometry(trs, frame, end, hz, vz) ==
    [scene_width |-> Int2Rat(SceneWidth),
     scene_height |-> RAdd(tracks_bottom_from(1, Int2Rat(TOP_MARGIN), trs, vz),
                           Int2Rat(BOTTOM_MARGIN)),
     ph_x |-> frameToX(frame, hz),
     end_x |-> frameToX(Int2Rat(end), hz),
     tracks |-> track_geometry_from(1, Int2Rat(TOP_MARGIN), trs, hz, vz)]

(* A plausible slip: the layout pads whatever end frame is stored, so      *)
(* every recompute moves the end marker further out.                       *)
updateLayout_padding_stored_end(trs) ==
    /\ end_frame' = Max(Max(minimum_end_frame(trs), end_frame) + EndFramePadding,
                        EndFrameFloor)
    /\ geometry' = layout_geometry(trs, playhead_frame', end_frame', h_zoom', v_zoom')
    /\ laid_out' = TRUE
    /\ drag' = NoDrag

updateLayout(trs) ==
    /\ end_frame' = updateLayout_end_frame(trs)
    /\ geometry' = layout_geometry(trs, playhead_frame', end_frame', h_zoom', v_zoom')
    /\ laid_out' = TRUE
    /\ drag' = NoDrag

(* Bookkeeping of the current uninterrupted playback run.                   *)
RunAfterEvent ==
    run' = IF playhead_frame' = Int2Rat(0)
           THEN [E |-> end_frame', n |-> 0, on |-> TRUE]
           ELSE NoRun

----------------------------------------------------------------------------
Init ==
    /\ tracks = << >>
    /\ pool \in TrackPools
    /\ playhead_frame = Int2Rat(0)
    /\ end_frame = updateLayout_end_frame(<< >>)
    /\ h_zoom = Int2Rat(1)
    /\ v_zoom = Int2Rat(1)
    /\ geometry = layout_geometry(<< >>, Int2Rat(0), updateLayout_end_frame(<< >>),
                                  Int2Rat(1), Int2Rat(1))
    /\ laid_out = TRUE
    /\ timer_active = FALSE
    /\ drag = NoDrag
    /\ last = NoRelease
    /\ run = [E |-> updateLayout_end_frame(<< >>), n |-> 0, on |-> TRUE]

(* TimelineView.addTrack                                                   *)
addTrack(track) ==
    /\ track \in pool
    /\ pool' = pool \ {track}
    /\ tracks' = Append(tracks, track)
    /\ last' = NoRelease
    /\ UNCHANGED << playhead_frame, h_zoom, v_zoom, timer_active >>
    /\ updateLayout(tracks')
    /\ RunAfterEvent

----------------------------------------------------------------------------
(* ClipItem: drag of a clip.                                               *)

(* A plausible slip: the move writes the frame under the pointer into the  *)
(* clip's data, as the playhead and end-line items do on every move.       *)
ClipItem_itemChange_live(clip, x, hz) ==
    [clip EXCEPT !.start_frame = Max(0, PyRound(xToFrame(x, hz)))]

(* ClipItem.itemChange on a move: only the item's y is pinned; the clip's  *)
(* data is left as it is.                                                  *)
ClipItem_itemChange(clip, x, hz) == clip

(* ClipItem.mousePressEvent: the item takes the mouse where the last       *)
(* layout (or release) put it.                                             *)
ClipItem_mousePressEvent(t, c) ==
    /\ drag = NoDrag
    /\ t \in DOMAIN tracks
    /\ c \in DOMAIN tracks[t].clips
    /\ drag' = [t |-> t, c |-> c,
                x |-> frameToX(Int2Rat(tracks[t].clips[c].start_frame), h_zoom)]
    /\ last' = NoRelease
    /\ laid_out' = FALSE
    /\ UNCHANGED << tracks, pool, playhead_frame, end_frame, h_zoom, v_zoom, geometry,
                    timer_active >>
    /\ RunAfterEvent

(* ClipItem.mouseMoveEvent (inherited) with ClipItem.itemChange.           *)
ClipItem_mouseMoveEvent(x) ==
    /\ drag # NoDrag
    /\ drag' = [drag EXCEPT !.x = Int2Rat(x)]
    /\ tracks' = [tracks EXCEPT ![drag.t].clips[drag.c] =
                      ClipItem_itemChange(@, Int2Rat(x), h_zoom)]
    /\ last' = NoRelease
    /\ laid_out' = FALSE
    /\ UNCHANGED << pool, playhead_frame, end_frame, h_zoom, v_zoom, geometry,
                    timer_active >>
    /\ RunAfterEvent

original_candidate(x, hz) == PyRound(xToFrame(x, hz))

(* The list of snapping candidates, in the order the loop appends them.    *)
RECURSIVE candidate_options_from(_, _, _, _, _)
candidate_options_from(i, acc, original, self, clips) ==
    IF i > Len(clips) THEN acc
    ELSE IF i = self THEN candidate_options_from(i + 1, acc, original, self, clips)
    ELSE
        LET other == clips[i]
            other_end == other.start_frame + other.duration_frames
            acc1 == IF Abs(original - other_end) <= SNAP_TOLERANCE
                    THEN Append(acc, other_end) ELSE acc
            acc2 == IF Abs(original + clips[self].duration_frames - other.start_frame)
                           <= SNAP_TOLERANCE
                    THEN Append(acc1, other.start_frame - clips[self].duration_frames)
                    ELSE acc1
        IN  candidate_options_from(i + 1, acc2, original, self, clips)

candidate_options(original, self, clips) ==
    candidate_options_from(1, << original >>, original, self, clips)

(* Python min(seq, key=...): the first element whose key is smallest.      *)
RECURSIVE PyMinFrom(_, _, _, _)
PyMinFrom(i, best, options, original) ==
    IF i > Len(options) THEN best
    ELSE PyMinFrom(i + 1,
                   IF Abs(options[i] - original) < Abs(best - original)
                   THEN options[i] ELSE best,
                   options, original)

(* A plausible slip: a snapping candidate, when there is one, is preferred  *)
(* to the raw frame.                                                       *)
closest_candidate_prefers_snap(options, original) ==
    IF Len(options) > 1 THEN options[2] ELSE options[1]

closest_candidate(options, original) == PyMinFrom(2, options[1], options, original)

Overlaps(candidate, duration, other) ==
    /\ candidate < other.start_frame + other.duration_frames
    /\ candidate + duration > other.start_frame

OverlapsAny(candidate, self, clips) ==
    \E i \in DOMAIN clips :
        i # self /\ Overlaps(candidate, clips[self].duration_frames, clips[i])

(* A plausible slip: on overlap the clip goes back to where it was.        *)
overlap_check_back_to_start(candidate, original, self, clips) ==
    IF OverlapsAny(candidate, self, clips) THEN clips[self].start_frame ELSE candidate

(* The overlap check: revert to original_candidate on any overlap.         *)
overlap_check(candidate, original, self, clips) ==
    IF OverlapsAny(candidate, self, clips) THEN original ELSE candidate

(* A plausible slip: the clamp at 0 is left out.                           *)
committed_start_frame_unclamped(candidate) == candidate

committed_start_frame(candidate) == Max(0, candidate)

(* The frame a release at item position x commits for clip `self`.         *)
release_start_frame(x, hz, self, clips) ==
    LET original == original_candidate(x, hz)
        candidate == closest_candidate(candidate_options(original, self, clips), original)
    IN  committed_start_frame(overlap_check(candidate, original, self, clips))

(* ClipItem.mouseReleaseEvent: commits the clip's start_frame; the layout  *)
(* is not recomputed.                                                      *)
ClipItem_mouseReleaseEvent ==
    /\ drag # NoDrag
    /\ tracks' = [tracks EXCEPT ![drag.t].clips[drag.c].start_frame =
                      release_start_frame(drag.x, h_zoom, drag.c, tracks[drag.t].clips)]
    /\ drag' = NoDrag
    /\ last' = [t |-> drag.t, c |-> drag.c, x |-> drag.x,
                from |-> tracks[drag.t].clips[drag.c].start_frame]
    /\ geometry' = [geometry EXCEPT !["tracks"][drag.t].clips[drag.c].x =
                        frameToX(Int2Rat(tracks'[drag.t].clips[drag.c].start_frame), h_zoom)]
    /\ laid_out' = FALSE
    /\ UNCHANGED << pool, playhead_frame, end_frame, h_zoom, v_zoom, timer_active >>
    /\ RunAfterEvent

----------------------------------------------------------------------------
(* Playhead.                                                               *)

(* TimelineView.setPlayheadFrame: stores the frame as given.               *)
setPlayheadFrame(frame) ==
    /\ playhead_frame' = frame
    /\ UNCHANGED << tracks, pool, h_zoom, v_zoom, timer_active >>
    /\ updateLayout(tracks)
    /\ RunAfterEvent

(* PlayheadTriangleItem.updatePlayhead, on every move and on release.      *)
PlayheadTriangleItem_updatePlayhead(x) ==
    LET new_frame == xToFrame(Int2Rat(x), h_zoom)
    IN  /\ setPlayheadFrame(new_frame)
        /\ last' = NoRelease

(* PlayheadLineItem.updatePlayhead, on every move and on release.          *)
PlayheadLineItem_updatePlayhead(x) ==
    LET new_frame == xToFrame(Int2Rat(x), h_zoom)
    IN  /\ setPlayheadFrame(new_frame)
        /\ last' = NoRelease

WithinStepRange(frame) ==
    /\ RGeq(frame, Int2Rat(-MaxStepFrame))
    /\ RGeq(Int2Rat(MaxStepFrame), frame)

(* The "<<" and ">>" buttons of TimelineWidget.                            *)
frameBackButton ==
    /\ WithinStepRange(playhead_frame)
    /\ setPlayheadFrame(RSub(playhead_frame, Int2Rat(1)))
    /\ last' = NoRelease

frameForwardButton ==
    /\ WithinStepRange(playhead_frame)
    /\ setPlayheadFrame(RAdd(playhead_frame, Int2Rat(1)))
    /\ last' = NoRelease

(* TimelineView.updateFromPlayhead                                         *)
updateFromPlayhead(new_frame) ==
    /\ playhead_frame' = Int2Rat(PyRound(new_frame))
    /\ updateLayout(tracks)

(* A plausible slip: playback holds at the end instead of wrapping to 0.   *)
playbackStep_frame_holds_at_end(frame, end) ==
    LET stepped == RAdd(frame, Int2Rat(1))
    IN  IF RGeq(stepped, Int2Rat(end)) THEN frame ELSE stepped

(* The frame playbackStep hands to updateFromPlayhead: one frame on, and   *)
(* 0 once that reaches end_frame.                                          *)
playbackStep_frame(frame, end) ==
    LET stepped == RAdd(frame, Int2Rat(1))
    IN  IF RGeq(stepped, Int2Rat(end)) THEN Int2Rat(0) ELSE stepped

(* TimelineView.playbackStep, the timer's slot.                            *)
playbackStep ==
    /\ timer_active
    /\ UNCHANGED << tracks, pool, h_zoom, v_zoom, timer_active >>
    /\ updateFromPlayhead(playbackStep_frame(playhead_frame, end_frame))
    /\ last' = NoRelease
    /\ run' = IF run.on /\ run.n < run.E
              THEN [run EXCEPT !.n = @ + 1]
              ELSE IF playhead_frame = Int2Rat(0)
                   THEN [E |-> end_frame, n |-> 1, on |-> TRUE]
                   ELSE NoRun

(* TimelineView.startPlayback / stopPlayback                               *)
startPlayback ==
    /\ timer_active' = TRUE
    /\ last' = NoRelease
    /\ UNCHANGED << tracks, pool, playhead_frame, end_frame, h_zoom, v_zoom, geometry,
                    laid_out, drag >>
    /\ RunAfterEvent

stopPlayback ==
    /\ timer_active' = FALSE
    /\ last' = NoRelease
    /\ UNCHANGED << tracks, pool, playhead_frame, end_frame, h_zoom, v_zoom, geometry,
                    laid_out, drag >>
    /\ RunAfterEvent

----------------------------------------------------------------------------
(* End frame.                                                              *)

(* The frame setEndFrame stores before it recomputes the layout.           *)
setEndFrame_stored(frame, trs) ==
    LET min_end == Int2Rat(minimum_end_frame(trs))
    IN  IF RLess(frame, min_end) THEN min_end ELSE frame

(* TimelineView.setEndFrame: clamps and stores the frame, then calls       *)
(* updateLayout, which assigns end_frame again.                            *)
setEndFrame(frame) ==
    /\ UNCHANGED << tracks, pool, playhead_frame, h_zoom, v_zoom, timer_active >>
    /\ LET stored == setEndFrame_stored(frame, tracks)  \* self.end_frame = frame
       IN  updateLayout(tracks)          \* self.end_frame = max(min_end + 24, 100)
    /\ RunAfterEvent

setEndFrameCall(frame) ==
    /\ setEndFrame(Int2Rat(frame))
    /\ last' = NoRelease

(* EndLineItem.itemChange: the x the item accepts for a proposed x.        *)
EndLineItem_itemChange(x, hz, trs) ==
    LET new_frame == xToFrame(x, hz)
        min_end == Int2Rat(minimum_end_frame(trs))
    IN  IF RLess(new_frame, min_end) THEN frameToX(min_end, hz) ELSE x

(* EndLineItem.updateEndFrame, on every move and on release.               *)
EndLineItem_updateEndFrame(x) ==
    LET pos_x == EndLineItem_itemChange(Int2Rat(x), h_zoom, tracks)
        new_frame == xToFrame(pos_x, h_zoom)
    IN  /\ setEndFrame(new_frame)
        /\ last' = NoRelease

----------------------------------------------------------------------------
(* Zoom and resize.                                                        *)

setHZoom(value) ==
    /\ h_zoom' = RAdd(Rat(1, 2), RMul(Rat(value, 100), Rat(7, 2)))
    /\ last' = NoRelease
    /\ UNCHANGED << tracks, pool, playhead_frame, v_zoom, timer_active >>
    /\ updateLayout(tracks)
    /\ RunAfterEvent

setVZoom(value) ==
    /\ v_zoom' = RAdd(Rat(1, 2), RMul(Rat(value, 100), Rat(3, 2)))
    /\ last' = NoRelease
    /\ UNCHANGED << tracks, pool, playhead_frame, h_zoom, timer_active >>
    /\ updateLayout(tracks)
    /\ RunAfterEvent

resizeEvent ==
    /\ last' = NoRelease
    /\ UNCHANGED << tracks, pool, playhead_frame, h_zoom, v_zoom, timer_active >>
    /\ updateLayout(tracks)
    /\ RunAfterEvent

----------------------------------------------------------------------------
Next ==
    \/ \E track \in pool : addTrack(track)
    \/ \E t \in DOMAIN tracks : \E c \in DOMAIN tracks[t].clips : ClipItem_mousePressEvent(t, c)
    \/ \E x \in ClipXs : ClipItem_mouseMoveEvent(x)
    \/ ClipItem_mouseReleaseEvent
    \/ \E x \in PlayheadXs : PlayheadTriangleItem_updatePlayhead(x)
    \/ \E x \in PlayheadXs : PlayheadLineItem_updatePlayhead(x)
    \/ frameBackButton
    \/ frameForwardButton
    \/ playbackStep
    \/ startPlayback
    \/ stopPlayback
    \/ \E frame \in EndFrameInputs : setEndFrameCall(frame)
    \/ \E x \in EndXs : EndLineItem_updateEndFrame(x)
    \/ \E value \in HZoomValues : setHZoom(value)
    \/ resizeEvent

Spec == Init /\ [][Next]_vars

(* While the QTimer is active the event loop keeps delivering its timeout. *)
(* The events that decide where a tick finds the playhead and the end     *)
(* frame: scrubs and frame steps, clip releases, and the timer itself.     *)
NextPlayback ==
    \/ \E track \in pool : addTrack(track)
    \/ \E t \in DOMAIN tracks : \E c \in DOMAIN tracks[t].clips : ClipItem_mousePressEvent(t, c)
    \/ \E x \in ClipXs : ClipItem_mouseMoveEvent(x)
    \/ ClipItem_mouseReleaseEvent
    \/ \E x \in PlayheadXs : PlayheadTriangleItem_updatePlayhead(x)
    \/ frameBackButton
    \/ frameForwardButton
    \/ playbackStep
    \/ startPlayback
    \/ stopPlayback

SpecPlayback == Init /\ [][NextPlayback]_vars /\ WF_vars(playbackStep)

(* The clip editing operations alone, on tracks of several clips.          *)
InitClips ==
    /\ tracks = << >>
    /\ pool \in ClipTrackPools
    /\ playhead_frame = Int2Rat(0)
    /\ end_frame = updateLayout_end_frame(<< >>)
    /\ h_zoom = Int2Rat(1)
    /\ v_zoom = Int2Rat(1)
    /\ geometry = layout_geometry(<< >>, Int2Rat(0), updateLayout_end_frame(<< >>),
                                  Int2Rat(1), Int2Rat(1))
    /\ laid_out = TRUE
    /\ timer_active = FALSE
    /\ drag = NoDrag
    /\ last = NoRelease
    /\ run = [E |-> updateLayout_end_frame(<< >>), n |-> 0, on |-> TRUE]

NextClips ==
    \/ \E track \in pool : addTrack(track)
    \/ \E t \in DOMAIN tracks : \E c \in DOMAIN tracks[t].clips : ClipItem_mousePressEvent(t, c)
    \/ \E x \in ClipXs : ClipItem_mouseMoveEvent(x)
    \/ ClipItem_mouseReleaseEvent
    \/ \E frame \in EndFrameInputs : setEndFrameCall(frame)
    \/ \E x \in EndXs : EndLineItem_updateEndFrame(x)
    \/ \E value \in HZoomValues : setHZoom(value)
    \/ resizeEvent

SpecClips == InitClips /\ [][NextClips]_vars

(* Everything the layout reads is changed: tracks, clips, playhead, both   *)
(* zooms; and the layout is recomputed with nothing changed (resize).      *)
InitLayout ==
    /\ tracks = << >>
    /\ pool \in LayoutTrackPools
    /\ playhead_frame = Int2Rat(0)
    /\ end_frame = updateLayout_end_frame(<< >>)
    /\ h_zoom = Int2Rat(1)
    /\ v_zoom = Int2Rat(1)
    /\ geometry = layout_geometry(<< >>, Int2Rat(0), updateLayout_end_frame(<< >>),
                                  Int2Rat(1), Int2Rat(1))
    /\ laid_out = TRUE
    /\ timer_active = FALSE
    /\ drag = NoDrag
    /\ last = NoRelease
    /\ run = [E |-> updateLayout_end_frame(<< >>), n |-> 0, on |-> TRUE]

NextLayout ==
    \/ \E track \in pool : addTrack(track)
    \/ \E t \in DOMAIN tracks : \E c \in DOMAIN tracks[t].clips : ClipItem_mousePressEvent(t, c)
    \/ \E x \in ClipXs : ClipItem_mouseMoveEvent(x)
    \/ ClipItem_mouseReleaseEvent
    \/ \E x \in PlayheadXs : PlayheadLineItem_updatePlayhead(x)
    \/ \E frame \in EndFrameInputs : setEndFrameCall(frame)
    \/ \E x \in EndXs : EndLineItem_updateEndFrame(x)
    \/ \E value \in HZoomValues : setHZoom(value)
    \/ \E value \in VZoomValues : setVZoom(value)
    \/ resizeEvent

SpecLayout == InitLayout /\ [][NextLayout]_vars

----------------------------------------------------------------------------
(* Properties.                                                             *)

ClipsOf(t) == tracks[t].clips

Intersect(a, b) ==
    /\ a.start_frame < b.start_frame + b.duration_frames
    /\ b.start_frame < a.start_frame + a.duration_frames

Released == last # NoRelease

ReleasedClips == tracks[last.t].clips

ReleasedRawFrame == original_candidate(last.x, h_zoom)

(* C1: no two clips of one track have intersecting intervals               *)
(* [start_frame, start_frame + duration_frames), whatever releases came.   *)
C1_NonOverlap ==
    \A t \in DOMAIN tracks :
        \A i, j \in DOMAIN ClipsOf(t) :
            i # j => ~Intersect(ClipsOf(t)[i], ClipsOf(t)[j])

(* C2: the timeline's end_frame is never below minimum_end_frame().        *)
C2_EndFrameAtLeastMinimum == end_frame >= minimum_end_frame(tracks)

(* C3: when setEndFrame(f) returns, end_frame = max(f, minimum_end_frame()). *)
C3_SetEndFrameStoresClamped ==
    [][\A frame \in EndFrameInputs :
          setEndFrameCall(frame) =>
              end_frame' = Max(frame, minimum_end_frame(tracks'))]_vars

(* C4: a clip released at raw frame 101, in a track whose only other clip  *)
(* ends at frame 100 and leaves frame 100 onwards free, starts at 100.     *)
C4_SnapsOntoEnd ==
    (/\ Released
     /\ Len(ReleasedClips) = 2
     /\ ReleasedRawFrame = 101
     /\ \A i \in DOMAIN ReleasedClips :
            i # last.c => /\ ClipEnd(ReleasedClips[i]) = 100
                          /\ ~Overlaps(100, ReleasedClips[last.c].duration_frames,
                                       ReleasedClips[i]))
    => ReleasedClips[last.c].start_frame = 100

(* C5: n ticks after the playhead stood at 0 with end frame E, with no     *)
(* other event in between, the playhead is at n mod E.                     *)
C5_PlayheadIsTicksModEnd ==
    run.on => playhead_frame = Int2Rat(run.n % run.E)

(* C6: every clip's start_frame is >= 0 after any sequence of releases.    *)
C6_StartFrameNonNegative ==
    \A t \in DOMAIN tracks :
        \A c \in DOMAIN ClipsOf(t) : ClipsOf(t)[c].start_frame >= 0

(* A clip was released left of the left margin, at a negative raw frame.   *)
C6_ReleasedLeftOfMargin ==
    /\ Released
    /\ RLess(last.x, Int2Rat(LEFT_MARGIN))
    /\ ReleasedRawFrame < 0
    /\ ReleasedClips[last.c].start_frame = 0

(* C7: after a playhead drag update the stored playhead_frame is >= 0.     *)
C7_PlayheadDragNonNegative ==
    [][(\E x \in PlayheadXs :
            \/ PlayheadTriangleItem_updatePlayhead(x)
            \/ PlayheadLineItem_updatePlayhead(x))
       => RGeq(playhead_frame', Int2Rat(0))]_vars

(* C8: the stored playhead_frame is always an integer.                     *)
C8_PlayheadIsInteger == IsInt(playhead_frame)

(* C9: a clip's start_frame changes only in the release that ends the drag *)
(* of that clip; press and move leave every start_frame as it was.         *)
C9_StartFrameWrittenOnlyOnRelease ==
    [][\A t \in DOMAIN tracks :
          \A c \in DOMAIN ClipsOf(t) :
              tracks'[t].clips[c].start_frame # ClipsOf(t)[c].start_frame
                  => /\ drag # NoDrag
                     /\ drag.t = t /\ drag.c = c
                     /\ drag' = NoDrag
                     /\ last' # NoRelease]_vars

(* A clip is being dragged and has been moved away from its committed      *)
(* position.                                                               *)
C9_MovedDuringDrag ==
    /\ drag # NoDrag
    /\ drag.x # frameToX(Int2Rat(ClipsOf(drag.t)[drag.c].start_frame), h_zoom)
    /\ original_candidate(drag.x, h_zoom) # ClipsOf(drag.t)[drag.c].start_frame

(* C10: when the candidate chosen on release overlaps another clip of the  *)
(* track, the committed start_frame is max(0, rawFrame), overlapping or    *)
(* not.                                                                    *)
C10_OverlapFallsBackToRaw ==
    (/\ Released
     /\ OverlapsAny(closest_candidate(
                        candidate_options(ReleasedRawFrame, last.c, ReleasedClips),
                        ReleasedRawFrame),
                    last.c, ReleasedClips))
    => ReleasedClips[last.c].start_frame = Max(0, ReleasedRawFrame)

(* A at [0,50), B at [50,100), and C of duration 10 released at raw frame  *)
(* 45: C is committed at 45, over A.                                       *)
C10_ReleasedOverAnotherClip ==
    /\ Released
    /\ Len(ReleasedClips) = 3
    /\ last.c = 3
    /\ ReleasedClips[1] = ClipData(0, 50)
    /\ ReleasedClips[2] = ClipData(50, 50)
    /\ ReleasedRawFrame = 45
    /\ ReleasedClips[3] = ClipData(45, 10)

(* C11: after every playback tick, layout recompute included, the playhead *)
(* is strictly below the timeline's end_frame.                             *)
C11_TickLeavesPlayheadBelowEnd ==
    [][playbackStep => RLess(playhead_frame', Int2Rat(end_frame'))]_vars

(* C13: every release commits max(0, rawFrame); no snapping candidate is   *)
(* ever chosen over the raw frame.                                         *)
C13_ReleaseCommitsRawFrame ==
    Released => ReleasedClips[last.c].start_frame = Max(0, ReleasedRawFrame)

(* A release for which the candidate list holds a snapping candidate other *)
(* than the raw frame, and the raw frame is what was committed.            *)
C13_ReleasedNextToSnapCandidate ==
    /\ Released
    /\ \E i \in DOMAIN candidate_options(ReleasedRawFrame, last.c, ReleasedClips) :
           candidate_options(ReleasedRawFrame, last.c, ReleasedClips)[i] # ReleasedRawFrame
    /\ ReleasedClips[last.c].start_frame = ReleasedRawFrame

(* C15: once playback has been started and only ticks occur from then on,  *)
(* the playhead is at frame 0 infinitely often.                            *)
C15_PlaybackKeepsWrapping ==
    (<>[]timer_active /\ <>[][playbackStep]_vars)
        => []<>(playhead_frame = Int2Rat(0))

(* Playback ran a whole lap from frame 0 and the tick that reached the end *)
(* frame put the playhead back on 0.                                       *)
C15_WrappedDuringPlayback ==
    /\ timer_active
    /\ run.on
    /\ run.n = run.E
    /\ playhead_frame = Int2Rat(0)

(* C12: the layout recompute is idempotent: run again with tracks, clips,  *)
(* playhead and zoom unchanged, it leaves end_frame, the scene height, the *)
(* marker positions and every track's and clip's geometry as they were.    *)
C12_LayoutIdempotent ==
    [][(laid_out /\ resizeEvent)
       => (end_frame' = end_frame /\ geometry' = geometry)]_vars

(* The layout has run over two tracks, a clip moved off frame 0, a         *)
(* scrubbed playhead and both zooms changed.                               *)
C12_LaidOutNontrivial ==
    /\ laid_out
    /\ Len(tracks) = 2
    /\ \E t \in DOMAIN tracks : \E c \in DOMAIN ClipsOf(t) : ClipsOf(t)[c].start_frame > 0
    /\ playhead_frame # Int2Rat(0)
    /\ h_zoom # Int2Rat(1)
    /\ v_zoom # Int2Rat(1)
    /\ geometry.scene_height # Int2Rat(TOP_MARGIN + BOTTOM_MARGIN)

(* C14: after every operation that runs the layout recompute, end_frame is *)
(* max(minimum_end_frame() + 24, 100), whatever frame setEndFrame or an    *)
(* end-marker drag asked for.                                              *)
C14_EndFrameIsPaddedMinimum ==
    laid_out => end_frame = Max(minimum_end_frame(tracks) + EndFramePadding, EndFrameFloor)

(* The layout has run with a clip ending beyond frame 76, so that the      *)
(* padded minimum, not the floor of 100 nor a frame given to setEndFrame,  *)
(* is the end frame.                                                       *)
C14_LaidOutBeyondFloor ==
    /\ laid_out
    /\ minimum_end_frame(tracks) + EndFramePadding > EndFrameFloor
    /\ end_frame = minimum_end_frame(tracks) + EndFramePadding
    /\ end_frame \notin EndFrameInputs

====
